---- MODULE Spec2Model ----
(***************************************************************************)
(* Model of the SRE command line tool (src/sre.py).  One command runs at a *)
(* time on a single thread.  Every call to the Kubernetes client is an     *)
(* input of the step that makes it: the step draws the response (an        *)
(* object, a listing, or an ApiException with a status) from a small set,  *)
(* appends the call to `calls` and the lines it echoes to `out`.           *)
(***************************************************************************)
EXTENDS Integers, Sequences, FiniteSets, TLC

(***************************************************************************)
(* Bounds of the model.                                                    *)
(***************************************************************************)
MaxDeps == 3        \* deployments in a cluster-wide listing
MaxReplicas == 1    \* scale: a deployment read has 0..MaxReplicas replicas
MaxPods == 2        \* diagnostic: pods in a pod listing
MaxLogPods == 3     \* logs: pods in a pod listing

(***************************************************************************)
(* Program constants.                                                      *)
(***************************************************************************)
DefaultTail == 50   \* --tail default
NotFoundStatus == 404

Names == {"myapp", "dep2"}
Namespaces == {"ns1", "ns2", "ns3"}
None == "None"      \* an option that was not given on the command line

\* Python's Optional: <<>> is None, <<x>> is the value x.
Nothing == <<>>
Some(x) == <<x>>
IsNone(o) == Len(o) = 0
Value(o) == o[1]

\* All sequences over S of length at most n.
SeqUpTo(S, n) == UNION {[1..k -> S] : k \in 0..n}

(***************************************************************************)
(* Exceptions.  ApiException carries an HTTP status; the handlers tell 404 *)
(* from the rest.                                                          *)
(***************************************************************************)
OK == 0
ServerErrorStatus == 500
ApiStatuses == {NotFoundStatus, ServerErrorStatus}
Responses == {OK} \cup ApiStatuses

(***************************************************************************)
(* Deployment objects as scale and info use them: metadata and             *)
(* spec.replicas.                                                          *)
(***************************************************************************)
Deployment(name, ns, replicas) ==
    [metadata |-> [name |-> name, namespace |-> ns],
     spec |-> [replicas |-> replicas]]

\* The deployments of a listing; scale overwrites their replica count
\* before it uses it.
DeploymentObjects ==
    {Deployment(n, ns, MaxReplicas) : n \in Names, ns \in Namespaces}

Key(d) == <<d.metadata.name, d.metadata.namespace>>

\* What list_deployment_for_all_namespaces().items can be: a name is unique
\* within its namespace.
Listings ==
    {l \in SeqUpTo(DeploymentObjects, MaxDeps) :
        \A i, j \in 1..Len(l) : Key(l[i]) = Key(l[j]) => i = j}

NoDeployment == Deployment(None, None, 0)
NoChoice == -1

(***************************************************************************)
(* Strings the program builds are sequences of characters; a label mapping *)
(* is the sequence of its (key, value) items in iteration order, the keys  *)
(* distinct.  dep.spec.template.metadata.labels is such a mapping or None. *)
(***************************************************************************)
LabelItems == {<<<<"a", "p", "p">>, <<"w", "e", "b">>>>,
               <<<<"t", "i", "e", "r">>, <<"d", "b">>>>}
LabelMappings ==
    {m \in SeqUpTo(LabelItems, Cardinality(LabelItems)) :
        \A i, j \in 1..Len(m) : m[i][1] = m[j][1] => i = j}
LabelOptions == {Nothing} \cup {Some(m) : m \in LabelMappings}
\* logs reads nothing of the deployment but its labels: a wider choice of
\* them, with a label whose value is the empty string.
LogLabelItems == LabelItems \cup {<<<<"e", "n", "v">>, <<>>>>}
LogLabelMappings ==
    {m \in SeqUpTo(LogLabelItems, Cardinality(LogLabelItems)) :
        \A i, j \in 1..Len(m) : m[i][1] = m[j][1] => i = j}
LogLabelOptions == {Nothing} \cup {Some(m) : m \in LogLabelMappings}

\* Deployment objects as diagnostic and logs use them.
DiagDeployment(name, ns, desired, current, available, labels) ==
    [metadata |-> [name |-> name, namespace |-> ns],
     spec |-> [replicas |-> desired, labels |-> labels],
     status |-> [replicas |-> current, available_replicas |-> available]]
NoDep == DiagDeployment(None, None, 0, 0, 0, Nothing)

\* The replica counts diagnostic reads.
ReplicaCounts == {0, 1, 2}

\* The deployments diagnostic and logs are run for.
Targets == {<<"myapp", "ns1">>, <<"dep2", "ns2">>}

(***************************************************************************)
(* Pods.  A dict of resource quantities is a function from the keys it has *)
(* to their values; requests, limits, container_statuses, the resources of *)
(* a container status and lastState.terminated may each be None.           *)
(***************************************************************************)
Quantities == [cpu |-> "100m", memory |-> "64Mi"]
NoQuantities == [k \in {} |-> "0"]
Resources(requests, limits) == [requests |-> requests, limits |-> limits]
ContainerStatus(state, reason, last, restarts, resources) ==
    [name |-> "main", state |-> state, reason |-> reason, last_terminated |-> last,
     restart_count |-> restarts, resources |-> resources]
Container(resources) == [name |-> "main", resources |-> resources]
PodKind(phase, statuses, containers) ==
    [phase |-> phase, container_statuses |-> statuses, containers |-> containers]

Declared == <<Container(Resources(Some(Quantities), Some(NoQuantities)))>>
Undeclared == <<Container(Resources(Nothing, Nothing))>>
HealthyPod ==
    PodKind("Running",
            Some(<<ContainerStatus("running", None, Nothing, 0,
                                   Some(Resources(Some(Quantities), Some(Quantities))))>>),
            Declared)
PodKinds ==
    {HealthyPod,
     \* not scheduled yet: the status lists no container
     PodKind("Pending", Nothing, Declared),
     \* a container that declares neither requests nor limits
     PodKind("Running",
             Some(<<ContainerStatus("running", None, Nothing, 0, Nothing)>>), Undeclared),
     PodKind("Running",
             Some(<<ContainerStatus("waiting", "CrashLoopBackOff", Some("Error"), 1,
                                    Nothing)>>), Declared),
     PodKind("Failed",
             Some(<<ContainerStatus("terminated", "OOMKilled", Some("OOMKilled"), 1,
                                    Nothing)>>), Declared),
     PodKind("Succeeded",
             Some(<<ContainerStatus("terminated", "Completed", Nothing, 0,
                                    Nothing)>>), Declared)}

PodNames == <<"pod-1", "pod-2", "pod-3", "pod-4", "pod-5">>
NamedPod(i, kind) ==
    [metadata |-> [name |-> PodNames[i]],
     status |-> [phase |-> kind.phase, container_statuses |-> kind.container_statuses],
     spec |-> [containers |-> kind.containers]]
\* What list_namespaced_pod(...).items can be.
PodListings ==
    UNION {{[i \in 1..n |-> NamedPod(i, kinds[i])] : kinds \in [1..n -> PodKinds]} :
           n \in 0..MaxPods}
\* logs reads nothing of a pod but its name.
PodListingsByName ==
    {[i \in 1..n |-> NamedPod(i, HealthyPod)] : n \in 0..MaxLogPods}

VARIABLES
    pc,             \* where the running command stands
    cmd,            \* the command and its options
    calls,          \* the client calls issued so far by the command, in order
    out,            \* the lines echoed so far by the command, in order
    exit,           \* "running", "returned" or "raised" (uncaught exception)
    listing,        \* items of the last cluster-wide deployment listing
    deployments,    \* scale/info: the deployments whose name matches
    deployment_obj, \* scale/info: the deployment the command goes on with
    namespace,      \* info: the handler's namespace variable, which it rebinds
    choice,         \* scale: the number entered at the prompt, NoChoice before
    dep,            \* diagnostic/logs: the deployment read
    label_selector, \* diagnostic/logs: the selector built from the labels
    pods,           \* diagnostic/logs: items of the pod listing
    idx             \* diagnostic/logs: the pod the loop stands at

podVars == <<dep, label_selector, pods, idx>>
vars == <<pc, cmd, calls, out, exit, listing, deployments, deployment_obj, namespace,
          choice, dep, label_selector, pods, idx>>

(***************************************************************************)
(* click.echo: a line on stdout, or on stderr with err=True.  A line is    *)
(* its message, the name it is about and a number.                         *)
(***************************************************************************)
Echo(msg, subject, n) == [stream |-> "out", msg |-> msg, subject |-> subject, n |-> n]
EchoErr(msg, subject, n) == [stream |-> "err", msg |-> msg, subject |-> subject, n |-> n]

\* A line that shows two values.
Echo2(msg, subject, second) ==
    [stream |-> "out", msg |-> msg, subject |-> subject, n |-> 0, second |-> second]

NoBody == [kind |-> "none"]
NoSelector == <<>>
\* A call to the client, with the status it was answered with.
ApiCall(api, name, ns, selector, body, status) ==
    [api |-> api, name |-> name, namespace |-> ns,
     selector |-> selector, body |-> body, status |-> status]

NoCmd == [op |-> "none", deployment |-> None, namespace |-> None,
          replicas |-> 0, pod |-> FALSE, pod_name |-> None, tail |-> DefaultTail]

Init ==
    /\ pc = "idle"
    /\ cmd = NoCmd
    /\ calls = <<>>
    /\ out = <<>>
    /\ exit = "returned"
    /\ listing = <<>>
    /\ deployments = <<>>
    /\ deployment_obj = NoDeployment
    /\ namespace = None
    /\ choice = NoChoice
    /\ dep = NoDep
    /\ label_selector = NoSelector
    /\ pods = <<>>
    /\ idx = 0

\* A filter that keeps the matches in reverse order.
RECURSIVE MatchingByNameReversed(_, _)
MatchingByNameReversed(items, deployment) ==
    IF items = <<>> THEN <<>>
    ELSE LET rest == MatchingByNameReversed(Tail(items), deployment)
         IN  IF Head(items).metadata.name = deployment
             THEN rest \o <<Head(items)>>
             ELSE rest

\* for d in items: if d.metadata.name == deployment: deployments.append(d)
RECURSIVE MatchingByName(_, _)
MatchingByName(items, deployment) ==
    IF items = <<>> THEN <<>>
    ELSE LET rest == MatchingByName(Tail(items), deployment)
         IN  IF Head(items).metadata.name = deployment
             THEN <<Head(items)>> \o rest
             ELSE rest

\* deployment_obj = deployments[choice-1]: the list is 0-based, the prompt 1-based
SelectedFirst(deps, entered) == deps[1]
Selected(deps, entered) == deps[entered]

\* deployment_obj.spec.replicas = replicas; the object is the body of the patch
PatchBodyUnchanged(obj, replicas) == obj
PatchBody(obj, replicas) == [obj EXCEPT !.spec.replicas = replicas]

\* for i, dep in enumerate(deployments, 1): echo(f"{i}. Namespace: ...")
CandidateLines(deps) ==
    [i \in 1..Len(deps) |-> Echo("candidate", deps[i].metadata.namespace, i)]

\* The command ends: by a return, or by an exception no handler caught.
Finish(lines, how) ==
    /\ pc' = "done"
    /\ out' = out \o lines
    /\ exit' = how

(***************************************************************************)
(* scale, up to the point where it either ends, prompts or patches.        *)
(***************************************************************************)
ScaleBegin(deployment, replicas, ns) ==
    /\ pc = "idle"
    /\ UNCHANGED podVars
    /\ cmd' = [NoCmd EXCEPT !.op = "scale", !.deployment = deployment,
                            !.namespace = ns, !.replicas = replicas]
    /\ namespace' = ns
    /\ choice' = NoChoice

\* get_k8s_client() is called outside the try block: its ConfigException
\* is caught by no handler of scale.
ScaleConfigError ==
    \E deployment \in Names, replicas \in -1..(MaxReplicas + 1),
       ns \in Namespaces \cup {None} :
        /\ ScaleBegin(deployment, replicas, ns)
        /\ Finish(<<>>, "raised")
        /\ calls' = <<>>
        /\ UNCHANGED <<listing, deployments, deployment_obj>>

\* if replicas <= 0: echo, return
ScaleBadReplicas ==
    \E deployment \in Names, replicas \in -1..0, ns \in Namespaces \cup {None} :
        /\ ScaleBegin(deployment, replicas, ns)
        /\ Finish(<<EchoErr("replicas_must_be_positive", None, replicas)>>, "returned")
        /\ calls' = <<>>
        /\ UNCHANGED <<listing, deployments, deployment_obj>>

\* if namespace: deployment_obj = api.read_namespaced_deployment(...)
ScaleRead ==
    \E deployment \in Names, replicas \in 1..(MaxReplicas + 1), ns \in Namespaces,
       resp \in Responses, current \in 0..MaxReplicas :
        /\ ScaleBegin(deployment, replicas, ns)
        /\ calls' = <<ApiCall("read_namespaced_deployment", deployment,
                              ns, NoSelector, NoBody, resp)>>
        /\ UNCHANGED <<listing, deployments>>
        /\ IF resp = OK
           THEN /\ deployment_obj' = Deployment(deployment, ns, current)
                /\ pc' = "scale_patch"
                /\ exit' = "running"
                /\ out' = <<>>
           ELSE /\ Finish(<<EchoErr("unexpected_error", None, resp)>>, "returned")
                /\ UNCHANGED deployment_obj

\* else: filter the cluster-wide listing by name; none, one or several match
ScaleList ==
    \E deployment \in Names, replicas \in 1..(MaxReplicas + 1), resp \in Responses :
        /\ ScaleBegin(deployment, replicas, None)
        /\ calls' = <<ApiCall("list_deployment_for_all_namespaces", None,
                              None, NoSelector, NoBody, resp)>>
        /\ IF resp # OK
           THEN /\ Finish(<<EchoErr("unexpected_error", None, resp)>>, "returned")
                /\ UNCHANGED <<listing, deployments, deployment_obj>>
           ELSE \E items \in Listings :
                LET found == MatchingByName(items, deployment) IN
                /\ listing' = items
                /\ deployments' = found
                /\ IF found = <<>>
                   THEN /\ Finish(<<EchoErr("not_found_in_any_namespace",
                                            deployment, 0)>>, "returned")
                        /\ UNCHANGED deployment_obj
                   ELSE IF Len(found) > 1
                   THEN /\ pc' = "scale_prompt"
                        /\ exit' = "running"
                        /\ out' = <<Echo("multiple_same_name", None, 0)>>
                                  \o CandidateLines(found)
                                  \o <<Echo("prompt", None, 0)>>
                        /\ UNCHANGED deployment_obj
                   ELSE /\ pc' = "scale_patch"
                        /\ exit' = "running"
                        /\ out' = <<>>
                        /\ deployment_obj' = found[1]

\* A prompt that falls back to the first candidate on an invalid number.
ScalePromptDefaulting ==
    /\ pc = "scale_prompt"
    /\ \E entered \in 0..(Len(deployments) + 1) :
        /\ choice' = entered
        /\ deployment_obj' = IF entered < 1 \/ entered > Len(deployments)
                             THEN deployments[1]
                             ELSE Selected(deployments, entered)
        /\ pc' = "scale_patch"
        /\ UNCHANGED <<out, exit>>
        /\ UNCHANGED <<cmd, calls, listing, deployments, namespace>>
        /\ UNCHANGED podVars

\* choice = click.prompt(..., type=int): any integer the operator types
ScalePrompt ==
    /\ pc = "scale_prompt"
    /\ \E entered \in 0..(Len(deployments) + 1) :
        /\ choice' = entered
        /\ IF entered < 1 \/ entered > Len(deployments)
           THEN /\ Finish(<<EchoErr("invalid_selection", None, entered)>>, "returned")
                /\ UNCHANGED deployment_obj
           ELSE /\ deployment_obj' = Selected(deployments, entered)
                /\ pc' = "scale_patch"
                /\ UNCHANGED <<out, exit>>
        /\ UNCHANGED <<cmd, calls, listing, deployments, namespace>>
        /\ UNCHANGED podVars

\* deployment_obj.spec.replicas = replicas; api.patch_namespaced_deployment(...)
ScalePatch ==
    /\ pc = "scale_patch"
    /\ \E resp \in Responses :
        LET body == PatchBody(deployment_obj, cmd.replicas) IN
        /\ deployment_obj' = body
        /\ calls' = Append(calls, ApiCall("patch_namespaced_deployment",
                                          deployment_obj.metadata.name,
                                          deployment_obj.metadata.namespace,
                                          NoSelector, body, resp))
        /\ IF resp = OK
           THEN Finish(<<Echo("scaled", deployment_obj.metadata.namespace,
                              cmd.replicas)>>, "returned")
           ELSE Finish(<<EchoErr("unexpected_error", None, resp)>>, "returned")
        /\ UNCHANGED <<cmd, listing, deployments, namespace, choice>>
        /\ UNCHANGED podVars

(***************************************************************************)
(* info.                                                                   *)
(***************************************************************************)
InfoBegin(deployment, ns) ==
    /\ pc = "idle"
    /\ UNCHANGED podVars
    /\ cmd' = [NoCmd EXCEPT !.op = "info", !.deployment = deployment, !.namespace = ns]
    /\ choice' = NoChoice

\* The handlers of info, diagnostic, rollout and logs for an ApiException.
ApiExceptionLine(status, deployment, ns) ==
    IF status = NotFoundStatus
    THEN EchoErr("deployment_not_found_in_namespace", deployment, status)
    ELSE EchoErr("api_error", None, status)

\* The four lines info echoes about the deployment it goes on with.
InfoLines(d) ==
    <<Echo("deployment", d.metadata.name, 0),
      Echo("namespace", d.metadata.namespace, 0),
      Echo("replicas", None, d.spec.replicas),
      Echo("strategy", None, 0)>>

\* get_k8s_client() and get_core_client() are called outside the try block.
InfoConfigError ==
    \E deployment \in Names, ns \in Namespaces \cup {None} :
        /\ InfoBegin(deployment, ns)
        /\ Finish(<<>>, "raised")
        /\ namespace' = ns
        /\ calls' = <<>>
        /\ UNCHANGED <<listing, deployments, deployment_obj>>

\* if not namespace: the first deployment of that name in the listing
InfoList ==
    \E deployment \in Names, resp \in Responses :
        LET said == <<Echo("namespace_not_specified", None, 0)>> IN
        /\ InfoBegin(deployment, None)
        /\ calls' = <<ApiCall("list_deployment_for_all_namespaces", None,
                              None, NoSelector, NoBody, resp)>>
        /\ IF resp # OK
           THEN /\ Finish(said \o <<ApiExceptionLine(resp, deployment, None)>>, "returned")
                /\ namespace' = None
                /\ UNCHANGED <<listing, deployments, deployment_obj>>
           ELSE \E items \in Listings :
                LET found == MatchingByName(items, deployment) IN
                /\ listing' = items
                /\ deployments' = found
                /\ IF found = <<>>
                   THEN /\ Finish(said \o <<EchoErr("not_found_in_any_namespace",
                                                    deployment, 0)>>, "returned")
                        /\ namespace' = None
                        /\ UNCHANGED deployment_obj
                   ELSE /\ deployment_obj' = found[1]
                        /\ namespace' = found[1].metadata.namespace
                        /\ pc' = "info_service"
                        /\ exit' = "running"
                        /\ out' = said \o InfoLines(found[1])

\* else: dep = api.read_namespaced_deployment(name=deployment, namespace=namespace)
InfoRead ==
    \E deployment \in Names, ns \in Namespaces, resp \in Responses,
       current \in 0..MaxReplicas :
        /\ InfoBegin(deployment, ns)
        /\ namespace' = ns
        /\ calls' = <<ApiCall("read_namespaced_deployment", deployment,
                              ns, NoSelector, NoBody, resp)>>
        /\ UNCHANGED <<listing, deployments>>
        /\ IF resp = OK
           THEN /\ deployment_obj' = Deployment(deployment, ns, current)
                /\ pc' = "info_service"
                /\ exit' = "running"
                /\ out' = InfoLines(Deployment(deployment, ns, current))
           ELSE /\ Finish(<<ApiExceptionLine(resp, deployment, ns)>>, "returned")
                /\ UNCHANGED deployment_obj

\* The inner try around read_namespaced_service: an ApiException is reported
\* and info goes on.
InfoService ==
    /\ pc = "info_service"
    /\ \E resp \in Responses :
        /\ calls' = Append(calls, ApiCall("read_namespaced_service", cmd.deployment,
                                          namespace, NoSelector, NoBody, resp))
        /\ out' = out \o (IF resp = OK
                          THEN <<Echo("associated_service", None, 0),
                                 Echo("service_name", cmd.deployment, 0),
                                 Echo("service_type", None, 0),
                                 Echo("service_ports", None, 0)>>
                          ELSE <<EchoErr("no_service_found", deployment_obj.metadata.name,
                                         resp)>>)
        /\ pc' = "info_endpoints"
        /\ UNCHANGED <<cmd, exit, listing, deployments, deployment_obj, namespace, choice>>
        /\ UNCHANGED podVars

\* The inner try around read_namespaced_endpoints.  An Endpoints object the
\* cluster has not filled yet has subsets = None: iterating it raises a
\* TypeError, which the outer `except Exception` reports.
EndpointsResponses == {"subsets", "no_subsets"}
InfoEndpoints ==
    /\ pc = "info_endpoints"
    /\ \E resp \in Responses, ep \in EndpointsResponses :
        /\ resp # OK => ep = "subsets"
        /\ calls' = Append(calls, ApiCall("read_namespaced_endpoints", cmd.deployment,
                                          namespace, NoSelector, NoBody, resp))
        /\ Finish(IF resp # OK
                  THEN <<EchoErr("no_endpoints_found", deployment_obj.metadata.name, resp)>>
                  ELSE IF ep = "no_subsets"
                  THEN <<Echo("associated_endpoints", None, 0),
                         Echo("endpoint_name", cmd.deployment, 0),
                         EchoErr("unexpected_error", None, 0)>>
                  ELSE <<Echo("associated_endpoints", None, 0),
                         Echo("endpoint_name", cmd.deployment, 0),
                         Echo("endpoint_address", None, 0)>>,
                  "returned")
        /\ UNCHANGED <<cmd, listing, deployments, deployment_obj, namespace, choice>>
        /\ UNCHANGED podVars

(***************************************************************************)
(* rollout.  Everything, get_k8s_client() included, is inside the try.     *)
(***************************************************************************)
RestartBody == [kind |-> "restartedAt"]

RolloutBegin(deployment, ns) ==
    /\ pc = "idle"
    /\ UNCHANGED podVars
    /\ cmd' = [NoCmd EXCEPT !.op = "rollout", !.deployment = deployment, !.namespace = ns]
    /\ namespace' = ns
    /\ UNCHANGED <<listing, deployments, deployment_obj, choice>>

RolloutConfigError ==
    \E deployment \in Names, ns \in Namespaces :
        /\ RolloutBegin(deployment, ns)
        /\ calls' = <<>>
        /\ Finish(<<EchoErr("config_error", None, 0)>>, "returned")

\* A rollout that reports a failed read and patches all the same.
RolloutReadIgnored ==
    \E deployment \in Names, ns \in Namespaces, resp \in Responses :
        /\ RolloutBegin(deployment, ns)
        /\ calls' = <<ApiCall("read_namespaced_deployment", deployment,
                              ns, NoSelector, NoBody, resp)>>
        /\ pc' = "rollout_patch"
        /\ exit' = "running"
        /\ out' = IF resp = OK THEN <<>> ELSE <<ApiExceptionLine(resp, deployment, ns)>>

\* api.read_namespaced_deployment(...): only to learn that the deployment exists
RolloutRead ==
    \E deployment \in Names, ns \in Namespaces, resp \in Responses :
        /\ RolloutBegin(deployment, ns)
        /\ calls' = <<ApiCall("read_namespaced_deployment", deployment,
                              ns, NoSelector, NoBody, resp)>>
        /\ IF resp = OK
           THEN /\ pc' = "rollout_patch"
                /\ exit' = "running"
                /\ out' = <<>>
           ELSE Finish(<<ApiExceptionLine(resp, deployment, ns)>>, "returned")

RolloutPatch ==
    /\ pc = "rollout_patch"
    /\ \E resp \in Responses :
        /\ calls' = Append(calls, ApiCall("patch_namespaced_deployment", cmd.deployment,
                                          cmd.namespace, NoSelector, RestartBody, resp))
        /\ IF resp = OK
           THEN Finish(<<Echo("rolled_out", cmd.deployment, 0)>>, "returned")
           ELSE Finish(<<ApiExceptionLine(resp, cmd.deployment, cmd.namespace)>>, "returned")
        /\ UNCHANGED <<cmd, listing, deployments, deployment_obj, namespace, choice>>
        /\ UNCHANGED podVars

(***************************************************************************)
(* The selector diagnostic and logs build from the pod-template labels.    *)
(***************************************************************************)
\* A join that puts the comma before every term, the first one included.
RECURSIVE JoinLabelsCommaFirst(_, _)
JoinLabelsCommaFirst(items, selector) ==
    IF items = <<>> THEN selector
    ELSE JoinLabelsCommaFirst(Tail(items),
                              selector \o <<",">> \o Head(items)[1] \o <<"=">>
                                  \o Head(items)[2])
\* for key, value in labels.items():
\*     if label_selector: label_selector += ","
\*     label_selector += f"{key}={value}"
RECURSIVE JoinLabels(_, _)
JoinLabels(items, selector) ==
    IF items = <<>> THEN selector
    ELSE JoinLabels(Tail(items),
                    (IF selector # <<>> THEN selector \o <<",">> ELSE selector)
                        \o Head(items)[1] \o <<"=">> \o Head(items)[2])
BuildSelector(labels) == JoinLabels(labels, <<>>)

\* `if not labels` holds for None and for the empty mapping.
NoLabelsUnlessNone(labels) == IsNone(labels)
NoLabels(labels) == IsNone(labels) \/ Value(labels) = <<>>

(***************************************************************************)
(* What diagnostic echoes for one pod.  A step of it that raises (a None   *)
(* where the code iterates or calls .get) ends the lines there; the        *)
(* exception reaches the handlers of diagnostic.                           *)
(***************************************************************************)
Lines(lines) == [lines |-> lines, raised |-> FALSE]
Raises == [lines |-> <<>>, raised |-> TRUE]
Then(first, second) ==
    IF first.raised THEN first
    ELSE [lines |-> first.lines \o second.lines, raised |-> second.raised]

\* d.get(key, default)
Get(d, key, default) == IF key \in DOMAIN d THEN d[key] ELSE default

\* One pass of `for container_status in p.status.container_statuses`
StateLine(cs) ==
    IF cs.state = "waiting" THEN <<Echo2("container_waiting", cs.name, cs.reason)>>
    ELSE IF cs.state = "terminated"
    THEN <<Echo2("container_terminated", cs.name, cs.reason)>>
    ELSE <<Echo("container_running", cs.name, 0)>>
StatusResources(cs) ==
    IF IsNone(cs.resources) THEN Lines(<<>>)
    ELSE LET res == Value(cs.resources) IN
         IF IsNone(res.requests) \/ IsNone(res.limits) THEN Raises
         ELSE Lines(<<Echo2("container_resources_request",
                            Get(Value(res.requests), "cpu", "Not Set"),
                            Get(Value(res.requests), "memory", "Not Set")),
                      Echo2("container_resources_limit",
                            Get(Value(res.limits), "cpu", "Not Set"),
                            Get(Value(res.limits), "memory", "Not Set"))>>)
StatusReport(cs) == Then(Lines(StateLine(cs)), StatusResources(cs))
RECURSIVE StatusesReport(_)
StatusesReport(statuses) ==
    IF statuses = <<>> THEN Lines(<<>>)
    ELSE Then(StatusReport(Head(statuses)), StatusesReport(Tail(statuses)))

\* One pass of `for container in p.spec.containers`: four echoes, each
\* evaluating a .get on requests or on limits
ContainerReport(c) ==
    LET cpuRequest ==
            IF IsNone(c.resources.requests) THEN Raises
            ELSE Lines(<<Echo("cpu_request",
                              Get(Value(c.resources.requests), "cpu", "Not set"), 0)>>)
        cpuLimit ==
            IF IsNone(c.resources.limits) THEN Raises
            ELSE Lines(<<Echo("cpu_limit",
                              Get(Value(c.resources.limits), "cpu", "Not set"), 0)>>)
        memoryRequest ==
            Lines(<<Echo("memory_request",
                         Get(Value(c.resources.requests), "memory", "Not set"), 0)>>)
        memoryLimit ==
            Lines(<<Echo("memory_limit",
                         Get(Value(c.resources.limits), "memory", "Not set"), 0)>>)
    IN  Then(Then(Then(cpuRequest, cpuLimit), memoryRequest), memoryLimit)
RECURSIVE ContainersReport(_)
ContainersReport(containers) ==
    IF containers = <<>> THEN Lines(<<>>)
    ELSE Then(ContainerReport(Head(containers)), ContainersReport(Tail(containers)))

\* sum(container.restart_count for container in p.status.container_statuses)
RECURSIVE TotalRestarts(_)
TotalRestarts(statuses) ==
    IF statuses = <<>> THEN 0
    ELSE Head(statuses).restart_count + TotalRestarts(Tail(statuses))

\* The body of `for p in pods`
PodReport(p) ==
    LET name == p.metadata.name
        header == Lines(<<Echo2("pod", name, p.status.phase)>>)
        statuses ==
            IF IsNone(p.status.container_statuses) THEN Raises
            ELSE StatusesReport(Value(p.status.container_statuses))
        phase ==
            Lines(IF p.status.phase \in {"Failed", "Unknown", "Pending"}
                  THEN <<Echo2("pod_needs_investigation", name, p.status.phase)>>
                  ELSE <<>>)
        containers == ContainersReport(p.spec.containers)
        restarts ==
            LET total == TotalRestarts(Value(p.status.container_statuses)) IN
            Lines(IF total > 0 THEN <<Echo("pod_restarts", name, total)>> ELSE <<>>)
    IN  Then(Then(Then(Then(header, statuses), phase), containers), restarts)

(***************************************************************************)
(* diagnostic.                                                             *)
(***************************************************************************)
\* The five lines about the deployment.
DiagnosticLines(d) ==
    <<Echo("deployment", d.metadata.name, 0),
      Echo("namespace", d.metadata.namespace, 0),
      Echo("desired_replicas", None, d.spec.replicas),
      Echo("current_replicas", None, d.status.replicas),
      Echo("available_replicas", None, d.status.available_replicas)>>

\* The second comparison made against the desired count.
ReplicaWarningsAgainstDesired(d) ==
    (IF d.spec.replicas # d.status.replicas
     THEN <<Echo2("warning_desired_not_current", None, None)>> ELSE <<>>)
    \o (IF d.spec.replicas # d.status.available_replicas
        THEN <<Echo2("warning_not_all_available", None, None)>> ELSE <<>>)
\* The two `if`s on the replica counts.
ReplicaWarnings(d) ==
    (IF d.spec.replicas # d.status.replicas
     THEN <<Echo2("warning_desired_not_current", None, None)>> ELSE <<>>)
    \o (IF d.status.replicas # d.status.available_replicas
        THEN <<Echo2("warning_not_all_available", None, None)>> ELSE <<>>)

DiagnosticBegin(deployment, ns, pod) ==
    /\ pc = "idle"
    /\ cmd' = [NoCmd EXCEPT !.op = "diagnostic", !.deployment = deployment,
                            !.namespace = ns, !.pod = pod]
    /\ namespace' = ns
    /\ UNCHANGED <<listing, deployments, deployment_obj, choice>>

\* get_k8s_client() and get_core_client() are called outside the try block.
DiagnosticConfigError ==
    \E target \in Targets, pod \in BOOLEAN :
        /\ DiagnosticBegin(target[1], target[2], pod)
        /\ Finish(<<>>, "raised")
        /\ calls' = <<>>
        /\ UNCHANGED podVars

\* A diagnostic that reports a failed read and then the counts it has not.
DiagnosticReadReporting ==
    \E target \in Targets, pod \in BOOLEAN, status \in ApiStatuses :
        /\ DiagnosticBegin(target[1], target[2], pod)
        /\ calls' = <<ApiCall("read_namespaced_deployment", target[1], target[2],
                              NoSelector, NoBody, status)>>
        /\ Finish(<<ApiExceptionLine(status, target[1], target[2])>>
                  \o DiagnosticLines(NoDep), "returned")
        /\ UNCHANGED podVars

\* dep = api.read_namespaced_deployment(...) raises ApiException
DiagnosticReadFails ==
    \E target \in Targets, pod \in BOOLEAN, status \in ApiStatuses :
        /\ DiagnosticBegin(target[1], target[2], pod)
        /\ calls' = <<ApiCall("read_namespaced_deployment", target[1], target[2],
                              NoSelector, NoBody, status)>>
        /\ Finish(<<ApiExceptionLine(status, target[1], target[2])>>, "returned")
        /\ UNCHANGED podVars

\* The deployment is read: its counts, the warnings, and with --pod the
\* selector for its pods.
DiagnosticRead ==
    \E target \in Targets, pod \in BOOLEAN, desired \in ReplicaCounts,
       current \in ReplicaCounts, available \in ReplicaCounts,
       labels \in LabelOptions :
        LET d == DiagDeployment(target[1], target[2], desired, current, available, labels)
            report == DiagnosticLines(d) \o ReplicaWarnings(d)
        IN
        /\ DiagnosticBegin(target[1], target[2], pod)
        /\ calls' = <<ApiCall("read_namespaced_deployment", target[1], target[2],
                              NoSelector, NoBody, OK)>>
        /\ dep' = d
        /\ UNCHANGED <<pods, idx>>
        /\ IF ~pod
           THEN /\ Finish(report, "returned")
                /\ UNCHANGED label_selector
           ELSE IF NoLabels(labels)
           THEN /\ Finish(report \o <<Echo("no_labels", target[1], 0)>>, "returned")
                /\ UNCHANGED label_selector
           ELSE /\ label_selector' = BuildSelector(Value(labels))
                /\ pc' = "diagnostic_list_pods"
                /\ exit' = "running"
                /\ out' = report

\* A pod listing that returns on an empty result without a word.
DiagnosticListPodsSilent ==
    /\ pc = "diagnostic_list_pods"
    /\ \E resp \in Responses :
        /\ calls' = Append(calls, ApiCall("list_namespaced_pod", None, namespace,
                                          label_selector, NoBody, resp))
        /\ IF resp # OK
           THEN /\ Finish(<<ApiExceptionLine(resp, cmd.deployment, namespace)>>, "returned")
                /\ UNCHANGED <<pods, idx>>
           ELSE \E items \in PodListings :
                /\ pods' = items
                /\ IF items = <<>>
                   THEN /\ Finish(<<>>, "returned")
                        /\ UNCHANGED idx
                   ELSE /\ pc' = "diagnostic_pods"
                        /\ idx' = 1
                        /\ UNCHANGED <<out, exit>>
        /\ UNCHANGED <<cmd, listing, deployments, deployment_obj, namespace, choice,
                       dep, label_selector>>

\* pods = core_api.list_namespaced_pod(namespace=..., label_selector=...).items
DiagnosticListPods ==
    /\ pc = "diagnostic_list_pods"
    /\ \E resp \in Responses :
        /\ calls' = Append(calls, ApiCall("list_namespaced_pod", None, namespace,
                                          label_selector, NoBody, resp))
        /\ IF resp # OK
           THEN /\ Finish(<<ApiExceptionLine(resp, cmd.deployment, namespace)>>, "returned")
                /\ UNCHANGED <<pods, idx>>
           ELSE \E items \in PodListings :
                /\ pods' = items
                /\ IF items = <<>>
                   THEN /\ Finish(<<Echo("no_pods_found", cmd.deployment, 0)>>, "returned")
                        /\ UNCHANGED idx
                   ELSE /\ pc' = "diagnostic_pods"
                        /\ idx' = 1
                        /\ UNCHANGED <<out, exit>>
        /\ UNCHANGED <<cmd, listing, deployments, deployment_obj, namespace, choice,
                       dep, label_selector>>

\* One pass of `for p in pods`; an exception in it is caught by
\* `except Exception` of diagnostic, outside the loop.
DiagnosticPod ==
    /\ pc = "diagnostic_pods"
    /\ LET report == PodReport(pods[idx]) IN
        IF report.raised
        THEN /\ Finish(report.lines \o <<EchoErr("unexpected_error", None, 0)>>,
                       "returned")
             /\ UNCHANGED idx
        ELSE IF idx = Len(pods)
        THEN /\ Finish(report.lines, "returned")
             /\ UNCHANGED idx
        ELSE /\ out' = out \o report.lines
             /\ idx' = idx + 1
             /\ UNCHANGED <<pc, exit>>
    /\ UNCHANGED <<cmd, calls, listing, deployments, deployment_obj, namespace, choice,
                   dep, label_selector, pods>>

(***************************************************************************)
(* logs.                                                                   *)
(***************************************************************************)
\* What read_namespaced_pod_log can answer: log text, no text, or an
\* ApiException.
LogResponses ==
    {[status |-> OK, logs |-> "text"], [status |-> OK, logs |-> ""]}
        \cup {[status |-> st, logs |-> ""] : st \in ApiStatuses}

TailBody(tail) == [kind |-> "tail_lines", tail_lines |-> tail]

\* A fetch that lets the ApiException through to the caller.
FetchPodLogsUncaught(pod_name, resp) ==
    IF resp.status # OK THEN Raises
    ELSE Lines(<<Echo("logs_for_pod", pod_name, 0),
                 IF resp.logs # "" THEN Echo("log_text", pod_name, 0)
                 ELSE Echo("no_logs_available", pod_name, 0)>>)
\* fetch_pod_logs: what it echoes for the answer it got; it catches the
\* ApiException itself.
FetchPodLogs(pod_name, resp) ==
    IF resp.status # OK
    THEN Lines(<<EchoErr("could_not_retrieve_logs", pod_name, resp.status)>>)
    ELSE Lines(<<Echo("logs_for_pod", pod_name, 0),
                 IF resp.logs # "" THEN Echo("log_text", pod_name, 0)
                 ELSE Echo("no_logs_available", pod_name, 0)>>)

\* The handler of logs for an ApiException.
LogsApiExceptionLine(status) ==
    IF status = NotFoundStatus
    THEN EchoErr("resource_not_found", None, status)
    ELSE EchoErr("api_error", None, status)

LogTargets == Targets \cup {<<None, "ns1">>}
PodOptions == {None, "pod-1"}
Tails == {1, DefaultTail}

LogsBegin(deployment, pod, ns, tail) ==
    /\ pc = "idle"
    /\ cmd' = [NoCmd EXCEPT !.op = "logs", !.deployment = deployment,
                            !.namespace = ns, !.pod_name = pod, !.tail = tail]
    /\ namespace' = ns
    /\ UNCHANGED <<listing, deployments, deployment_obj, choice>>

\* get_k8s_client() and get_core_client() are called outside the try block.
LogsConfigError ==
    \E target \in LogTargets, pod \in PodOptions, tail \in Tails :
        /\ LogsBegin(target[1], pod, target[2], tail)
        /\ Finish(<<>>, "raised")
        /\ calls' = <<>>
        /\ UNCHANGED podVars

\* if not deployment and not pod
LogsNoTarget ==
    \E ns \in Namespaces, tail \in Tails :
        /\ LogsBegin(None, None, ns, tail)
        /\ Finish(<<EchoErr("must_specify_deployment_or_pod", None, 0)>>, "returned")
        /\ calls' = <<>>
        /\ UNCHANGED podVars

\* if deployment: the deployment is read and the selector built
LogsRead ==
    \E target \in Targets, pod \in PodOptions, tail \in Tails, resp \in Responses,
       labels \in LogLabelOptions :
        /\ LogsBegin(target[1], pod, target[2], tail)
        /\ calls' = <<ApiCall("read_namespaced_deployment", target[1], target[2],
                              NoSelector, NoBody, resp)>>
        /\ UNCHANGED <<pods, idx>>
        /\ IF resp # OK
           THEN /\ Finish(<<LogsApiExceptionLine(resp)>>, "returned")
                /\ UNCHANGED <<dep, label_selector>>
           ELSE /\ dep' = DiagDeployment(target[1], target[2], 0, 0, 0, labels)
                /\ IF NoLabels(labels)
                   THEN /\ Finish(<<Echo("no_labels", target[1], 0)>>, "returned")
                        /\ UNCHANGED label_selector
                   ELSE /\ label_selector' = BuildSelector(Value(labels))
                        /\ pc' = "logs_list_pods"
                        /\ exit' = "running"
                        /\ out' = <<>>

LogsListPods ==
    /\ pc = "logs_list_pods"
    /\ \E resp \in Responses :
        /\ calls' = Append(calls, ApiCall("list_namespaced_pod", None, namespace,
                                          label_selector, NoBody, resp))
        /\ IF resp # OK
           THEN /\ Finish(<<LogsApiExceptionLine(resp)>>, "returned")
                /\ UNCHANGED <<pods, idx>>
           ELSE \E items \in PodListingsByName :
                /\ pods' = items
                /\ IF items = <<>>
                   THEN /\ Finish(<<EchoErr("no_pods_found", cmd.deployment, 0)>>,
                                  "returned")
                        /\ UNCHANGED idx
                   ELSE /\ pc' = "logs_fetch"
                        /\ idx' = 1
                        /\ UNCHANGED <<out, exit>>
        /\ UNCHANGED <<cmd, listing, deployments, deployment_obj, namespace, choice,
                       dep, label_selector>>

\* One pass of `for pod_obj in pods: fetch_pod_logs(...)`
LogsFetch ==
    /\ pc = "logs_fetch"
    /\ \E resp \in LogResponses :
        LET pod_name == pods[idx].metadata.name
            fetched == FetchPodLogs(pod_name, resp)
        IN
        /\ calls' = Append(calls, ApiCall("read_namespaced_pod_log", pod_name, namespace,
                                          NoSelector, TailBody(cmd.tail), resp.status))
        /\ IF fetched.raised
           THEN /\ Finish(fetched.lines \o <<LogsApiExceptionLine(resp.status)>>,
                          "returned")
                /\ UNCHANGED idx
           ELSE IF idx = Len(pods)
           THEN /\ Finish(fetched.lines, "returned")
                /\ UNCHANGED idx
           ELSE /\ out' = out \o fetched.lines
                /\ idx' = idx + 1
                /\ UNCHANGED <<pc, exit>>
        /\ UNCHANGED <<cmd, listing, deployments, deployment_obj, namespace, choice,
                       dep, label_selector, pods>>

\* elif pod: fetch_pod_logs(core_api, pod, namespace, tail)
LogsPod ==
    \E ns \in Namespaces, tail \in Tails, resp \in LogResponses :
        LET pod_name == "pod-1"
            fetched == FetchPodLogs(pod_name, resp)
        IN
        /\ LogsBegin(None, pod_name, ns, tail)
        /\ calls' = <<ApiCall("read_namespaced_pod_log", pod_name, ns,
                              NoSelector, TailBody(tail), resp.status)>>
        /\ Finish(IF fetched.raised
                  THEN fetched.lines \o <<LogsApiExceptionLine(resp.status)>>
                  ELSE fetched.lines, "returned")
        /\ UNCHANGED podVars

(***************************************************************************)
(* list.                                                                   *)
(***************************************************************************)
ListBegin(ns) ==
    /\ pc = "idle"
    /\ UNCHANGED podVars
    /\ UNCHANGED <<listing, deployment_obj, choice>>
    /\ cmd' = [NoCmd EXCEPT !.op = "list", !.namespace = ns]
    /\ namespace' = ns

\* get_k8s_client() is called outside the try block of list.
ListConfigError ==
    \E ns \in Namespaces \cup {None} :
        /\ ListBegin(ns)
        /\ Finish(<<>>, "raised")
        /\ calls' = <<>>
        /\ UNCHANGED deployments

\* What list_namespaced_deployment(namespace).items can be.
InNamespace(items, ns) == \A i \in 1..Len(items) : items[i].metadata.namespace = ns

\* for dep in deployments: echo(f"Deployment: ... Namespace: ...")
ListedLines(items) ==
    [i \in 1..Len(items) |->
        Echo2("listed", items[i].metadata.name, items[i].metadata.namespace)]

\* The listing of list; any exception of the call is caught by
\* `except Exception`.
ListDeployments ==
    \E ns \in Namespaces \cup {None}, resp \in Responses :
        /\ ListBegin(ns)
        /\ calls' = <<ApiCall(IF ns = None THEN "list_deployment_for_all_namespaces"
                                           ELSE "list_namespaced_deployment",
                              None, ns, NoSelector, NoBody, resp)>>
        /\ IF resp # OK
           THEN /\ Finish(<<EchoErr("error_listing", None, resp)>>, "returned")
                /\ UNCHANGED deployments
           ELSE \E items \in Listings :
                /\ ns # None => InNamespace(items, ns)
                /\ deployments' = items
                /\ Finish(ListedLines(items), "returned")

\* The process ends; the next command starts from a fresh process.
Exit ==
    /\ pc = "done"
    /\ pc' = "idle"
    /\ cmd' = NoCmd
    /\ calls' = <<>>
    /\ out' = <<>>
    /\ exit' = "returned"
    /\ listing' = <<>>
    /\ deployments' = <<>>
    /\ deployment_obj' = NoDeployment
    /\ namespace' = None
    /\ choice' = NoChoice
    /\ dep' = NoDep
    /\ label_selector' = NoSelector
    /\ pods' = <<>>
    /\ idx' = 0

Next ==
    \/ ListConfigError
    \/ ListDeployments
    \/ ScaleConfigError
    \/ ScaleBadReplicas
    \/ ScaleRead
    \/ ScaleList
    \/ ScalePrompt
    \/ ScalePatch
    \/ InfoConfigError
    \/ InfoList
    \/ InfoRead
    \/ InfoService
    \/ InfoEndpoints
    \/ RolloutConfigError
    \/ RolloutRead
    \/ RolloutPatch
    \/ DiagnosticConfigError
    \/ DiagnosticReadFails
    \/ DiagnosticRead
    \/ DiagnosticListPods
    \/ DiagnosticPod
    \/ LogsConfigError
    \/ LogsNoTarget
    \/ LogsRead
    \/ LogsListPods
    \/ LogsFetch
    \/ LogsPod
    \/ Exit

(***************************************************************************)
(* What a state shows of the running command.                              *)
(***************************************************************************)
Said(msg) == \E i \in 1..Len(out) : out[i].msg = msg
CountSaid(msg) == Cardinality({i \in 1..Len(out) : out[i].msg = msg})
SaidError == \E i \in 1..Len(out) : out[i].stream = "err"
CallsOf(api) == {i \in 1..Len(calls) : calls[i].api = api}
PatchCalls == CallsOf("patch_namespaced_deployment")
HasName(d) == d.metadata.name = cmd.deployment
\* The deployments of the listing that carry the requested name, in listing order.
NamedInListing == SelectSeq(listing, HasName)
IsCandidateLine(line) == line.msg = "candidate"
CandidatesShown == SelectSeq(out, IsCandidateLine)
\* scale without --namespace, once the cluster-wide listing has come back
ScaleListed ==
    /\ cmd.op = "scale"
    /\ cmd.namespace = None
    /\ calls # <<>>
    /\ calls[1].api = "list_deployment_for_all_namespaces"
    /\ calls[1].status = OK

\* C1: scale without a namespace finds the deployment iff exactly one listed
\* deployment has that name, reports not-found iff none has, and shows k
\* candidates iff k >= 2 have, in the order of the listing.
C1_ResolveByListing ==
    ScaleListed =>
        LET k == Len(NamedInListing) IN
        /\ Said("not_found_in_any_namespace") <=> k = 0
        /\ Said("multiple_same_name") <=> k >= 2
        /\ (k = 1) <=> (/\ ~Said("prompt")
                        /\ ~Said("not_found_in_any_namespace")
                        /\ deployment_obj.metadata = NamedInListing[1].metadata)
        /\ k >= 2 =>
              /\ Len(CandidatesShown) = k
              /\ \A i \in 1..k :
                    CandidatesShown[i] =
                        Echo("candidate", NamedInListing[i].metadata.namespace, i)
        /\ k < 2 => CandidatesShown = <<>>

\* Three deployments listed, the first and the last share the requested name.
C1_Witness ==
    /\ ScaleListed
    /\ pc = "scale_prompt"
    /\ Len(listing) = 3
    /\ HasName(listing[1]) /\ ~HasName(listing[2]) /\ HasName(listing[3])

Resolving == cmd.op \in {"scale", "info"} /\ cmd.namespace = None
GoesOn == deployment_obj # NoDeployment
ChoseExplicitly ==
    /\ choice \in 1..Len(deployments)
    /\ deployment_obj.metadata = deployments[choice].metadata

\* C2 as stated: neither scale nor info goes on with a deployment the
\* operator did not select when several deployments share the name.
C2_NeverGuesses ==
    (Resolving /\ Len(deployments) > 1 /\ GoesOn) => ChoseExplicitly

\* C2 amended: scale goes on only with the candidate the operator selected;
\* info asks nothing and goes on with the first match of the listing.
C2_ScaleNeverGuessesInfoTakesFirst ==
    (Resolving /\ Len(deployments) > 1 /\ GoesOn) =>
        /\ cmd.op = "scale" => ChoseExplicitly /\ CountSaid("prompt") = 1
        /\ cmd.op = "info" =>
              /\ choice = NoChoice
              /\ ~Said("prompt")
              /\ deployment_obj.metadata = NamedInListing[1].metadata
              /\ namespace = NamedInListing[1].metadata.namespace

\* scale has patched the second of several candidates, which the operator chose.
C2_Witness ==
    /\ cmd.op = "scale"
    /\ Len(deployments) > 1
    /\ choice = 2
    /\ PatchCalls # {}

Mutating == cmd.op \in {"scale", "rollout"}
IssuesCall == Len(calls') = Len(calls) + 1
IssuesPatch == IssuesCall /\ calls'[Len(calls')].api = "patch_namespaced_deployment"
Target(call) == [name |-> call.name, namespace |-> call.namespace]
\* The one (name, namespace) pair the resolution of the running command gave.
ResolvedPair ==
    IF cmd.namespace # None
    THEN [name |-> cmd.deployment, namespace |-> cmd.namespace]
    ELSE IF Len(NamedInListing) = 1 THEN NamedInListing[1].metadata
    ELSE NamedInListing[choice].metadata
Resolved ==
    /\ Len(calls) = 1
    /\ IF cmd.namespace # None
       THEN calls[1] = ApiCall("read_namespaced_deployment", cmd.deployment,
                               cmd.namespace, NoSelector, NoBody, OK)
       ELSE /\ calls[1].api = "list_deployment_for_all_namespaces"
            /\ \/ Len(NamedInListing) = 1
               \/ Len(NamedInListing) > 1 /\ choice \in 1..Len(NamedInListing)

\* The first call of the command, which resolves the target, was answered
\* with an ApiException.
ResolutionFailed == calls # <<>> /\ calls[1].status # OK

\* C3: scale and rollout patch only once the target is resolved to one pair,
\* the patch goes to that pair, and once an error has been reported (not
\* found, API error, configuration error, invalid selection) or the command
\* has raised, no call follows and no patch was issued.
C3_PatchOnlyAfterResolution ==
    [][Mutating' /\ pc' # "idle" =>
         /\ IssuesPatch =>
               /\ Mutating /\ ~SaidError /\ exit = "running"
               /\ Resolved
               /\ Target(calls'[Len(calls')]) = ResolvedPair
               /\ PatchCalls = {}
         /\ (Mutating /\ (SaidError \/ exit = "raised")) => calls' = calls
         /\ (SaidError' /\ ~IssuesPatch) => PatchCalls' = {}
         /\ (ResolutionFailed' \/ exit' = "raised"
               \/ Said("not_found_in_any_namespace")' \/ Said("invalid_selection")'
               \/ Said("config_error")')
                  => PatchCalls' = {} /\ pc' = "done"]_vars

\* scale has patched the deployment chosen among several, after a listing.
C3_Witness ==
    /\ cmd.op = "scale"
    /\ cmd.namespace = None
    /\ Len(NamedInListing) > 1
    /\ PatchCalls = {2}
    /\ Target(calls[2]) = NamedInListing[choice].metadata
    /\ Said("scaled")

Prompted == cmd.op = "scale" /\ choice # NoChoice

\* C4: a number outside [1, k] ends scale with the invalid-selection error,
\* after one prompt, with no candidate taken and no patch; a number i inside
\* selects the i-th candidate of the listing order.
C4_SelectionByIndex ==
    Prompted =>
        LET k == Len(CandidatesShown) IN
        /\ k = Len(NamedInListing) /\ k >= 2
        /\ CountSaid("prompt") = 1
        /\ choice \notin 1..k =>
              /\ pc = "done" /\ exit = "returned"
              /\ out[Len(out)] = EchoErr("invalid_selection", None, choice)
              /\ deployment_obj = NoDeployment
              /\ PatchCalls = {}
              /\ Len(calls) = 1
        /\ choice \in 1..k =>
              /\ ~Said("invalid_selection")
              /\ deployment_obj.metadata = NamedInListing[choice].metadata
              /\ deployment_obj.metadata.namespace = CandidatesShown[choice].subject
              /\ \A i \in PatchCalls :
                    Target(calls[i]) = NamedInListing[choice].metadata

\* The operator entered k + 1 with k = 2 candidates on the screen.
C4_Witness ==
    /\ Prompted
    /\ Len(CandidatesShown) = 2
    /\ choice = 3
    /\ Said("invalid_selection")

ScaleInNamespace == cmd.op = "scale" /\ cmd.replicas > 0 /\ cmd.namespace # None
NoListingNoPrompt ==
    /\ CallsOf("list_deployment_for_all_namespaces") = {}
    /\ ~Said("prompt") /\ ~Said("multiple_same_name") /\ choice = NoChoice
OnePatchTo(d, n, r) ==
    /\ Cardinality(PatchCalls) = 1
    /\ \A i \in PatchCalls :
          /\ calls[i].name = d
          /\ calls[i].namespace = n
          /\ calls[i].body.spec.replicas = r

Diagnosing == cmd.op = "diagnostic"
\* The deployment read of diagnostic or logs was answered with an object.
DeploymentRead ==
    /\ cmd.op \in {"diagnostic", "logs"}
    /\ calls # <<>>
    /\ calls[1].api = "read_namespaced_deployment"
    /\ calls[1].status = OK
IsPodLine(line) == line.msg = "pod"
PodsReported == SelectSeq(out, IsPodLine)

\* C6: a pod of the listing that cannot be processed never aborts the report
\* of diagnostic: when diagnostic is done, every pod of the listing has been
\* processed and reported, in listing order.
C6_PodFailureIsolated ==
    (Diagnosing /\ pc = "done" /\ pods # <<>>) =>
        /\ Len(PodsReported) = Len(pods)
        /\ \A i \in 1..Len(pods) : PodsReported[i].subject = pods[i].metadata.name

FetchCalls == SelectSeq(calls, LAMBDA c : c.api = "read_namespaced_pod_log")
IsLogResult(line) == line.msg \in {"logs_for_pod", "could_not_retrieve_logs"}
LogResults == SelectSeq(out, IsLogResult)
LogsOfDeployment == cmd.op = "logs" /\ cmd.deployment # None /\ pods # <<>>

\* C7: logs for a deployment with n pods fetches each of the n pods in
\* listing order and gives n results in that order, an error result for a
\* pod whose fetch failed; a failed fetch stops nothing.
C7_LogsPerPod ==
    LogsOfDeployment =>
        LET n == Len(pods)
            done == IF pc = "done" THEN n ELSE idx - 1
        IN
        /\ pc \in {"logs_fetch", "done"}
        /\ Len(FetchCalls) = done
        /\ Len(LogResults) = done
        /\ \A i \in 1..done :
              /\ FetchCalls[i].name = pods[i].metadata.name
              /\ FetchCalls[i].namespace = cmd.namespace
              /\ LogResults[i].subject = pods[i].metadata.name
              /\ (FetchCalls[i].status # OK) <=>
                     (LogResults[i] = EchoErr("could_not_retrieve_logs",
                                              pods[i].metadata.name,
                                              FetchCalls[i].status))
              /\ (FetchCalls[i].status = OK) <=> LogResults[i].msg = "logs_for_pod"
        /\ ~Said("api_error") /\ ~Said("resource_not_found") /\ exit # "raised"

\* Three pods, the fetch for the second failed, the other two gave a result.
C7_Witness ==
    /\ LogsOfDeployment
    /\ pc = "done"
    /\ Len(pods) = 3
    /\ FetchCalls[1].status = OK
    /\ FetchCalls[2].status # OK
    /\ FetchCalls[3].status = OK
    /\ Len(LogResults) = 3

PodListCalls == CallsOf("list_namespaced_pod")
\* The commands that go from a deployment to its pods.
NeedsPods ==
    /\ DeploymentRead
    /\ cmd.op = "diagnostic" => cmd.pod
\* The pod-template labels of the deployment read are None or empty.
LabelsMissing ==
    \/ dep.spec.labels = Nothing
    \/ dep.spec.labels = Some(<<>>)

\* C8: with the pod-template labels empty or absent, diagnostic --pod and
\* logs --deployment list no pods, say that the deployment has no labels and
\* return without an error; every pod listing carries a non-empty selector.
C8_NoLabelsNoListing ==
    /\ \A i \in PodListCalls : calls[i].selector # <<>>
    /\ (NeedsPods /\ LabelsMissing) =>
          /\ PodListCalls = {}
          /\ Len(calls) = 1
          /\ pc = "done" /\ exit = "returned"
          /\ out[Len(out)] = Echo("no_labels", cmd.deployment, 0)
          /\ ~SaidError
    /\ (NeedsPods /\ ~LabelsMissing /\ pc = "done") => Cardinality(PodListCalls) = 1

\* diagnostic --pod on a deployment whose label mapping is empty.
C8_Witness ==
    /\ NeedsPods
    /\ Diagnosing
    /\ dep.spec.labels = Some(<<>>)
    /\ Said("no_labels")

\* C9: diagnostic warns that desired and current differ iff they differ,
\* and that not all replicas are available iff current and available
\* differ, each once and whatever the other.
C9_ReplicaWarnings ==
    (Diagnosing /\ DeploymentRead) =>
        /\ CountSaid("warning_desired_not_current") =
              (IF dep.spec.replicas # dep.status.replicas THEN 1 ELSE 0)
        /\ CountSaid("warning_not_all_available") =
              (IF dep.status.replicas # dep.status.available_replicas THEN 1 ELSE 0)
        /\ CountSaid("desired_replicas") = 1
        /\ CountSaid("current_replicas") = 1
        /\ CountSaid("available_replicas") = 1

\* Desired and available agree, current differs: both warnings in one report.
C9_Witness ==
    /\ Diagnosing /\ DeploymentRead
    /\ dep.spec.replicas = dep.status.available_replicas
    /\ dep.spec.replicas # dep.status.replicas
    /\ Said("warning_desired_not_current")
    /\ Said("warning_not_all_available")

DiagnosticReadNotFound ==
    /\ Diagnosing
    /\ calls # <<>>
    /\ calls[1].api = "read_namespaced_deployment"
    /\ calls[1].status = NotFoundStatus

\* C10: when the deployment read of diagnostic is answered 404 the command
\* ends with the one line "deployment not found in namespace" on stderr: no
\* count, no warning, no pod line, no pod listing.
C10_NotFoundNoPartialReport ==
    DiagnosticReadNotFound =>
        /\ pc = "done" /\ exit = "returned"
        /\ out = <<EchoErr("deployment_not_found_in_namespace", cmd.deployment,
                           NotFoundStatus)>>
        /\ Len(calls) = 1
        /\ PodListCalls = {}
        /\ dep = NoDep /\ pods = <<>>

\* diagnostic --pod on a deployment that does not exist.
C10_Witness ==
    /\ DiagnosticReadNotFound
    /\ cmd.pod
    /\ Said("deployment_not_found_in_namespace")

(***************************************************************************)
(* Errors and absences, and how a command ends on them.                    *)
(***************************************************************************)
\* Calls whose failure only means that a secondary resource is absent.
SecondaryApis ==
    {"read_namespaced_service", "read_namespaced_endpoints", "read_namespaced_pod_log"}
\* A call on the primary path (deployment read, listing, patch, pod listing)
\* was answered with an ApiException: not found, or another API error.
PrimaryCallFailed ==
    \E i \in 1..Len(calls) :
        calls[i].api \notin SecondaryApis /\ calls[i].status # OK
\* The cluster-wide listing of scale or info holds no deployment of the name.
NotFoundAnywhere ==
    /\ cmd.op \in {"scale", "info"}
    /\ calls # <<>>
    /\ calls[1].api = "list_deployment_for_all_namespaces"
    /\ calls[1].status = OK
    /\ deployments = <<>>
\* The number entered at the prompt of scale names no candidate.
InvalidSelection ==
    /\ choice # NoChoice
    /\ (choice < 1 \/ choice > Len(deployments))
\* The client could not be configured: the exception escaped, or the
\* handler of rollout reported it.
ConfigurationFailed == exit = "raised" \/ Said("config_error")
Unrecoverable ==
    PrimaryCallFailed \/ NotFoundAnywhere \/ InvalidSelection \/ ConfigurationFailed
\* No service, no endpoints, no pods or no logs for a resource that exists.
SecondaryCallFailed ==
    \E i \in 1..Len(calls) :
        calls[i].api \in SecondaryApis /\ calls[i].status # OK
NoPodsListed ==
    /\ \E i \in 1..Len(calls) :
        calls[i].api = "list_namespaced_pod" /\ calls[i].status = OK
    /\ pods = <<>>
RecoverableAbsence ==
    SecondaryCallFailed \/ NoPodsListed \/ Said("no_logs_available")
Explained ==
    \/ Said("no_service_found")
    \/ Said("no_endpoints_found")
    \/ Said("no_pods_found")
    \/ Said("no_logs_available")
    \/ Said("could_not_retrieve_logs")
\* The process ends with a non-zero status only when an exception escapes
\* the command; a command that returns ends with status 0.
FailureSignal == exit = "raised"
\* A line of the command on the error stream, or the traceback the
\* interpreter prints there for an exception that escaped.
ErrorShown == SaidError \/ exit = "raised"

\* C11: when a command has ended, an unrecoverable error (deployment not
\* found, API error, configuration error, invalid selection) has put a line
\* on the error stream and the command has signalled failure, and a
\* recoverable absence alone (no service, no endpoints, no pods, no logs) has
\* put an explanatory line and the command has ended successfully.
C11_ErrorsSignalFailure ==
    pc = "done" =>
        /\ Unrecoverable => (ErrorShown /\ FailureSignal)
        /\ (RecoverableAbsence /\ ~Unrecoverable) => (Explained /\ ~FailureSignal)

(***************************************************************************)
(* The findings of diagnostic about the containers of a pod.               *)
(***************************************************************************)
\* The pod a line of the report is about: the one of the last pod header
\* at or before the line.
HeaderOf(i) ==
    CHOOSE j \in 1..i :
        /\ out[j].msg = "pod"
        /\ \A k \in (j + 1)..i : out[k].msg # "pod"
PodOfLine(i) ==
    CHOOSE k \in 1..Len(pods) : pods[k].metadata.name = out[HeaderOf(i)].subject
\* The status of the only container of that pod.
StatusOfLine(i) == Value(pods[PodOfLine(i)].status.container_statuses)[1]
TerminatedFindings == {i \in 1..Len(out) : out[i].msg = "container_terminated"}

\* C12: in the report of diagnostic with pod detail, the finding of a
\* Terminated container gives its termination reason and, when the
\* container's last-terminated reason is present, is immediately followed by
\* a second finding about the same container that gives that reason.
C12_LastTerminatedReported ==
    (Diagnosing /\ pc = "done") =>
        \A i \in TerminatedFindings :
            LET cs == StatusOfLine(i) IN
            /\ out[i].second = cs.reason
            /\ ~IsNone(cs.last_terminated) =>
                /\ i < Len(out)
                /\ out[i + 1].subject = cs.name
                /\ out[i + 1].msg \notin {"pod", "pod_needs_investigation", "pod_restarts",
                                          "cpu_request", "cpu_limit", "memory_request",
                                          "memory_limit", "unexpected_error"}
                /\ out[i + 1].second = Value(cs.last_terminated)

(***************************************************************************)
(* diagnostic --pod when the pod listing is empty.                         *)
(***************************************************************************)
WarningMessages ==
    {"warning_desired_not_current", "warning_not_all_available", "no_pods_found",
     "pod_needs_investigation", "pod_restarts"}
ReplicaWarningMessages == {"warning_desired_not_current", "warning_not_all_available"}
PodLevelMessages ==
    {"pod", "container_waiting", "container_terminated", "container_running",
     "container_resources_request", "container_resources_limit",
     "pod_needs_investigation", "cpu_request", "cpu_limit", "memory_request",
     "memory_limit", "pod_restarts"}
Warnings == {i \in 1..Len(out) : out[i].msg \in WarningMessages}
PodLevelFindings == {i \in 1..Len(out) : out[i].msg \in PodLevelMessages}
\* diagnostic --pod has ended on a pod listing that returned no pod.
ZeroPodsListed ==
    /\ Diagnosing /\ cmd.pod /\ pc = "done"
    /\ Len(calls) = 2
    /\ calls[2].api = "list_namespaced_pod"
    /\ calls[2].status = OK
    /\ pods = <<>>

\* C13 as stated: with pod detail and an empty pod listing, the report of
\* diagnostic holds exactly one warning, the one that no pods were found,
\* no pod-level finding, and the command ends without an error.
C13_ExactlyOneWarning ==
    ZeroPodsListed =>
        /\ Cardinality(Warnings) = 1
        /\ Said("no_pods_found")
        /\ PodLevelFindings = {}
        /\ ~SaidError
        /\ exit = "returned"

\* C13: with pod detail and an empty pod listing, the report of diagnostic
\* ends with exactly one "no pods found" warning, holds no pod-level
\* finding, and the command ends without an error; the only other warnings
\* are those about the replica counts of the deployment, which fire as the
\* counts require.
C13_OneNoPodsWarning ==
    ZeroPodsListed =>
        /\ CountSaid("no_pods_found") = 1
        /\ out[Len(out)] = Echo("no_pods_found", cmd.deployment, 0)
        /\ \A i \in Warnings :
              out[i].msg = "no_pods_found" \/ out[i].msg \in ReplicaWarningMessages
        /\ Cardinality(Warnings) = 1 + Len(ReplicaWarnings(dep))
        /\ PodLevelFindings = {}
        /\ ~SaidError
        /\ exit = "returned"

\* No pods were found for a deployment whose replicas are not all there:
\* three warnings in one report.
C13_Witness ==
    /\ ZeroPodsListed
    /\ CountSaid("no_pods_found") = 1
    /\ Said("warning_desired_not_current")
    /\ Said("warning_not_all_available")
    /\ exit = "returned"

(***************************************************************************)
(* The selector, read back as the comma-separated terms it consists of.    *)
(***************************************************************************)
\* The pieces of s between the occurrences of sep.
RECURSIVE SplitOn(_, _)
SplitOn(s, sep) ==
    IF s = <<>> THEN <<<<>>>>
    ELSE LET rest == SplitOn(Tail(s), sep) IN
         IF Head(s) = sep THEN <<<<>>>> \o rest
         ELSE <<<<Head(s)>> \o rest[1]>> \o Tail(rest)
\* key=value
Term(item) == item[1] \o <<"=">> \o item[2]
SelectorTerms == SplitOn(label_selector, ",")

\* C14: once diagnostic --pod or logs --deployment has read the deployment,
\* a non-empty label mapping M has given a selector of exactly len(M) terms
\* key=value joined by ',', with no leading or trailing comma, the keys and
\* values as supplied and the terms in the order of M, and that selector is
\* the one every pod listing carries; an empty or absent M has given no
\* selector.
C14_SelectorTerms ==
    NeedsPods =>
        IF LabelsMissing
        THEN label_selector = NoSelector
        ELSE LET M == Value(dep.spec.labels) IN
             /\ Len(SelectorTerms) = Len(M)
             /\ \A i \in 1..Len(M) : SelectorTerms[i] = Term(M[i])
             /\ Head(label_selector) # ","
             /\ label_selector[Len(label_selector)] # ","
             /\ \A i \in PodListCalls : calls[i].selector = label_selector

\* Three labels, the last with an empty value: the pods are listed with a
\* selector of three terms that ends with '='.
C14_Witness ==
    /\ NeedsPods
    /\ ~LabelsMissing
    /\ Len(Value(dep.spec.labels)) = 3
    /\ Value(dep.spec.labels)[3][2] = <<>>
    /\ PodListCalls # {}
    /\ Len(SelectorTerms) = 3
    /\ label_selector[Len(label_selector)] = "="

Spec == Init /\ [][Next]_vars
====
